---- MODULE Spec2Model ----
(***************************************************************************)
(* SNP-viewer: the Touchstone decoder (snp_viewer/touchstone.py) and the   *)
(* load / plot handlers of MainWindow (snp_viewer/gui_main.py).            *)
(*                                                                         *)
(* Text is modelled at the level the code inspects it.  A file name is a   *)
(* sequence of one-character strings.  A line of a file is a sequence of   *)
(* items: a whitespace character (" " or "\t"), the character "!", the     *)
(* character "#", or a maximal run of other characters (a chunk such as    *)
(* "GHZ", "75" or "inf"); two chunks are never adjacent in a line.         *)
(* Floats are IEEE values: a finite number, an infinity or NaN (signed     *)
(* zeros and rounding are not modelled; every finite value used is a small *)
(* integer, which doubles represent exactly).                              *)
(***************************************************************************)
EXTENDS Integers, Sequences, FiniteSets, TLC

VARIABLES
    path_name,      \* read_touchstone: path.name
    pc,             \* read_touchstone: "infer" (line 30), "loop" (38-66), "done"
    nports,         \* read_touchstone: nports
    unit_scale,     \* read_touchstone: unit_scale
    fmt,            \* read_touchstone: fmt
    z0,             \* read_touchstone: z0
    data_rows,      \* read_touchstone: data_rows
    result,         \* what read_touchstone returned or raised
    hdr_line,       \* history: the most recent "#" line read, or NoHeader
    flat,           \* history: the numeric tokens of the lines read, by the format's rules
    seen_lines,     \* history: the lines read so far (kept only under Spec)
    loaded_primary, \* MainWindow.loaded_primary
    loaded_compare, \* MainWindow.loaded_compare
    lbl_primary,    \* MainWindow.lbl_primary text
    lbl_compare,    \* MainWindow.lbl_compare text
    lbl_ports,      \* MainWindow.lbl_ports text
    cmb_plot,       \* MainWindow.cmb_plot current text
    chk_smooth,     \* MainWindow.chk_smooth state
    plot,           \* what the last refresh_plot did
    last_op         \* history: the last handler run and how its decode ended

decvars == <<path_name, pc, nports, unit_scale, fmt, z0, data_rows, result, hdr_line, flat,
             seen_lines>>
guivars == <<loaded_primary, loaded_compare, lbl_primary, lbl_compare, lbl_ports, cmb_plot,
             chk_smooth, plot, last_op>>
vars == <<path_name, pc, nports, unit_scale, fmt, z0, data_rows, result, hdr_line, flat,
          seen_lines, loaded_primary, loaded_compare, lbl_primary, lbl_compare, lbl_ports,
          cmb_plot, chk_smooth, plot, last_op>>

(***************************************************************************)
(* Bounds of the explored inputs.                                          *)
(***************************************************************************)
MaxNameLen == 5
MaxTok == 10
MaxLineToks == 2
MaxHdrToks == 3
MaxLines == 4

SeqsUpTo(A, n) == UNION {[1..k -> A] : k \in 0..n}
MinOf(S) == CHOOSE m \in S : \A o \in S : m <= o
MaxOf(S) == CHOOSE m \in S : \A o \in S : m >= o

(***************************************************************************)
(* Floats and complex numbers.                                             *)
(***************************************************************************)
\* A finite value is v * 10^e with v not a multiple of 10 (0 is v = 0, e = 0), so that
\* 10^9 times a small number stays inside TLC's integers.
RECURSIVE Pow10(_)
Pow10(e) == IF e <= 0 THEN 1 ELSE 10 * Pow10(e - 1)
RECURSIVE Norm(_, _)
Norm(v, e) ==
    IF v = 0 THEN [k |-> "fin", v |-> 0, e |-> 0]
    ELSE IF v % 10 = 0 THEN Norm(v \div 10, e + 1)
    ELSE [k |-> "fin", v |-> v, e |-> e]
Fin(n) == Norm(n, 0)
PInf == [k |-> "inf", v |-> 1, e |-> 0]
NInf == [k |-> "inf", v |-> -1, e |-> 0]
NaN == [k |-> "nan", v |-> 0, e |-> 0]
\* a float this model does not compute (cos, sin, 10**x)
Unknown == [k |-> "unknown", v |-> 0, e |-> 0]

Sgn(n) == IF n > 0 THEN 1 ELSE IF n < 0 THEN -1 ELSE 0

FMul(x, y) ==
    IF x.k = "unknown" \/ y.k = "unknown" THEN Unknown
    ELSE IF x.k = "nan" \/ y.k = "nan" THEN NaN
    ELSE IF x.k = "fin" /\ y.k = "fin" THEN Norm(x.v * y.v, x.e + y.e)
    ELSE IF Sgn(x.v) * Sgn(y.v) = 0 THEN NaN          \* 0 * inf
    ELSE [k |-> "inf", v |-> Sgn(x.v) * Sgn(y.v), e |-> 0]

FAdd(x, y) ==
    IF x.k = "unknown" \/ y.k = "unknown" THEN Unknown
    ELSE IF x.k = "nan" \/ y.k = "nan" THEN NaN
    ELSE IF x.k = "fin" /\ y.k = "fin"
         THEN LET m == IF x.e <= y.e THEN x.e ELSE y.e
              IN  Norm(x.v * Pow10(x.e - m) + y.v * Pow10(y.e - m), m)
    ELSE IF x.k = "inf" /\ y.k = "inf" THEN (IF x.v = y.v THEN x ELSE NaN)
    ELSE IF x.k = "inf" THEN x ELSE y

FNeg(x) == IF x.k \in {"fin", "inf"} THEN [x EXCEPT !.v = 0 - x.v] ELSE x
FSub(x, y) == FAdd(x, FNeg(y))

Cx(re, im) == [re |-> re, im |-> im]
CAdd(x, y) == Cx(FAdd(x.re, y.re), FAdd(x.im, y.im))
CMul(x, y) == Cx(FSub(FMul(x.re, y.re), FMul(x.im, y.im)),
                 FAdd(FMul(x.re, y.im), FMul(x.im, y.re)))
CFromReal(a) == Cx(a, Fin(0))          \* numpy's cast of a float to complex128
ImagUnit == Cx(Fin(0), Fin(1))         \* the Python literal 1j

(***************************************************************************)
(* File names: str.lower, "in", endswith, split(".s")[-1], int().          *)
(***************************************************************************)
LowerChar(c) == IF c = "S" THEN "s" ELSE IF c = "P" THEN "p" ELSE IF c = "X" THEN "x" ELSE c
LowerStr(s) == [i \in 1..Len(s) |-> LowerChar(s[i])]

Occurrences(s, sub) ==
    {i \in 1..(Len(s) - Len(sub) + 1) : SubSeq(s, i, i + Len(sub) - 1) = sub}
Contains(s, sub) == Occurrences(s, sub) # {}
EndsWith(s, c) == Len(s) > 0 /\ s[Len(s)] = c
\* s.split(sub)[-1] for a sub that cannot overlap itself: what follows its last occurrence
AfterLast(s, sub) ==
    IF Occurrences(s, sub) = {} THEN s
    ELSE SubSeq(s, MaxOf(Occurrences(s, sub)) + Len(sub), Len(s))

Digits == {"0", "1", "2", "3", "4", "5", "6", "7", "8", "9"}
DigitVal(c) ==
    CASE c = "0" -> 0 [] c = "1" -> 1 [] c = "2" -> 2 [] c = "3" -> 3 [] c = "4" -> 4
      [] c = "5" -> 5 [] c = "6" -> 6 [] c = "7" -> 7 [] c = "8" -> 8 [] c = "9" -> 9
      [] OTHER -> 0
RECURSIVE DigitsValue(_)
DigitsValue(s) ==
    IF s = <<>> THEN 0
    ELSE 10 * DigitsValue(SubSeq(s, 1, Len(s) - 1)) + DigitVal(s[Len(s)])

NameSpace == {" "}
StripChars(s, W) ==
    LET keep == {i \in 1..Len(s) : s[i] \notin W}
    IN  IF keep = {} THEN <<>> ELSE SubSeq(s, MinOf(keep), MaxOf(keep))
DropChar(s, c) == SelectSeq(s, LAMBDA ch : ch # c)

\* Python's int(str): surrounding whitespace, an optional sign, then digits, where single
\* underscores may stand between digits.  [ok |-> FALSE] is ValueError.
PyInt(s) ==
    LET t == StripChars(s, NameSpace)
        signed == Len(t) > 0 /\ t[1] \in {"+", "-"}
        body == IF signed THEN Tail(t) ELSE t
        wellformed ==
            /\ Len(body) > 0
            /\ \A i \in 1..Len(body) : body[i] \in Digits \cup {"_"}
            /\ body[1] # "_" /\ body[Len(body)] # "_"
            /\ \A i \in 1..(Len(body) - 1) : ~(body[i] = "_" /\ body[i + 1] = "_")
        mag == DigitsValue(DropChar(body, "_"))
    IN  IF wellformed
        THEN [ok |-> TRUE, val |-> IF signed /\ t[1] = "-" THEN 0 - mag ELSE mag]
        ELSE [ok |-> FALSE, val |-> 0]

_infer_nports(filename) ==
    LET lower == LowerStr(filename)
        mid == AfterLast(lower, <<".", "s">>)
        n == PyInt(SubSeq(mid, 1, Len(mid) - 1))
    IN  IF ~Contains(lower, <<".", "s">>) \/ ~EndsWith(lower, "p") THEN 0
        ELSE IF n.ok THEN n.val ELSE 0

(***************************************************************************)
(* Lines: str.strip, startswith, "in", split("!")[0], upper, replace,      *)
(* split, float.                                                           *)
(***************************************************************************)
WS == {" ", "\t"}
strip(line) == StripChars(line, WS)
startswith(line, c) == Len(line) > 0 /\ line[1] = c
BeforeBang(line) ==
    IF \E i \in 1..Len(line) : line[i] = "!"
    THEN SubSeq(line, 1, MinOf({i \in 1..Len(line) : line[i] = "!"}) - 1)
    ELSE line
UpperItem(c) ==
    CASE c = "ghz" -> "GHZ" [] c = "khz" -> "KHZ" [] c = "r" -> "R" [] c = "ma" -> "MA"
      [] c = "inf" -> "INF" [] OTHER -> c
upper(line) == [i \in 1..Len(line) |-> UpperItem(line[i])]
ReplaceTab(line) == [i \in 1..Len(line) |-> IF line[i] = "\t" THEN " " ELSE line[i]]

\* str.split(): the maximal runs of non-whitespace items, each run one token
RECURSIVE split(_)
split(line) ==
    IF line = <<>> THEN <<>>
    ELSE IF line[1] \in WS THEN split(Tail(line))
    ELSE LET stops == {i \in 1..Len(line) : line[i] \in WS}
             n == IF stops = {} THEN Len(line) + 1 ELSE MinOf(stops)
         IN  <<SubSeq(line, 1, n - 1)>> \o split(SubSeq(line, n, Len(line)))

\* the chunks float() accepts, with their values; a token of several items holds
\* "#" or "!" and is no float
FloatLiterals == {"0", "1", "2", "50", "75", "1000", "-5", "inf", "INF"}
LiteralValue(c) ==
    CASE c = "0" -> Fin(0) [] c = "1" -> Fin(1) [] c = "2" -> Fin(2) [] c = "50" -> Fin(50)
      [] c = "75" -> Fin(75) [] c = "1000" -> Fin(1000) [] c = "-5" -> Fin(-5)
      [] c = "inf" -> PInf [] c = "INF" -> PInf [] OTHER -> NaN
PyFloat(tok) ==
    IF Len(tok) = 1 /\ tok[1] \in FloatLiterals
    THEN [ok |-> TRUE, val |-> LiteralValue(tok[1])]
    ELSE [ok |-> FALSE, val |-> NaN]

\* a header keyword as one token of parts
Word(w) == <<w>>
InParts(parts, w) == \E i \in 1..Len(parts) : parts[i] = Word(w)

(***************************************************************************)
(* The header interpreter.                                                 *)
(***************************************************************************)
\* the keywords tried as the format lists them, HZ last
_unit_scale_hz_last(parts) ==
    IF InParts(parts, "KHZ") THEN Norm(1, 3)
    ELSE IF InParts(parts, "MHZ") THEN Norm(1, 6)
    ELSE IF InParts(parts, "GHZ") THEN Norm(1, 9)
    ELSE IF InParts(parts, "HZ") THEN Fin(1)
    ELSE Fin(1)

_unit_scale(parts) ==
    IF InParts(parts, "HZ") THEN Fin(1)
    ELSE IF InParts(parts, "KHZ") THEN Fin(1000)
    ELSE IF InParts(parts, "MHZ") THEN Norm(1, 6)
    ELSE IF InParts(parts, "GHZ") THEN Norm(1, 9)
    ELSE Fin(1)

_parse_format(parts) ==
    IF InParts(parts, "RI") THEN "RI"
    ELSE IF InParts(parts, "MA") THEN "MA"
    ELSE IF InParts(parts, "DB") THEN "DB"
    ELSE "RI"

_parse_z0(parts) ==
    IF InParts(parts, "R")
    THEN LET idx == MinOf({i \in 1..Len(parts) : parts[i] = Word("R")})   \* parts.index("R")
         IN  IF idx + 1 <= Len(parts) /\ PyFloat(parts[idx + 1]).ok
             THEN PyFloat(parts[idx + 1]).val
             ELSE Fin(50)
    ELSE Fin(50)

(***************************************************************************)
(* _to_complex.  cos, sin and 10**x are computed only where exact.         *)
(***************************************************************************)
PolarUnit(b) == IF b = Fin(0) THEN Cx(Fin(1), Fin(0)) ELSE Cx(Unknown, Unknown)
DbToMag(a) == IF a = Fin(0) THEN Fin(1) ELSE Unknown

_to_complex(a, b, f) ==
    IF f = "RI" THEN CAdd(CFromReal(a), CMul(ImagUnit, CFromReal(b)))
    ELSE IF f = "MA" THEN CMul(CFromReal(a), PolarUnit(b))
    ELSE IF f = "DB" THEN CMul(CFromReal(DbToMag(a)), PolarUnit(b))
    ELSE CAdd(CFromReal(a), CMul(ImagUnit, CFromReal(b)))

(***************************************************************************)
(* read_touchstone: the loop body over one line, and what follows the loop.*)
(***************************************************************************)
LoopStart == [unit_scale |-> Fin(1), fmt |-> "RI", z0 |-> Fin(50), data_rows |-> <<>>]

RECURSIVE AppendFloats(_, _)
AppendFloats(rows, toks) ==
    IF toks = <<>> THEN rows
    ELSE AppendFloats(IF PyFloat(toks[1]).ok THEN Append(rows, PyFloat(toks[1]).val) ELSE rows,
                      Tail(toks))

\* a header that keeps the earlier header's encoding when it names none
HeaderStep_inheriting(st, line) ==
    LET parts == split(upper(line))
    IN  [st EXCEPT !.unit_scale = _unit_scale(parts),
                   !.fmt = IF \E f \in {"RI", "MA", "DB"} : InParts(parts, f)
                           THEN _parse_format(parts) ELSE st.fmt,
                   !.z0 = _parse_z0(parts)]

HeaderStep(st, line) ==
    LET parts == split(upper(line))
    IN  [st EXCEPT !.unit_scale = _unit_scale(parts),
                   !.fmt = _parse_format(parts),
                   !.z0 = _parse_z0(parts)]

\* a data line whose inline comment is left in place
InlineStrip_skipped(line) == line

InlineStrip(line) == IF \E i \in 1..Len(line) : line[i] = "!" THEN strip(BeforeBang(line)) ELSE line

DataStep(st, line) ==
    [st EXCEPT !.data_rows = AppendFloats(st.data_rows, split(ReplaceTab(line)))]

LineStep(st, raw) ==
    LET line == strip(raw)
    IN  IF line = <<>> THEN st
        ELSE IF startswith(line, "!") THEN st
        ELSE IF startswith(line, "#") THEN HeaderStep(st, line)
        ELSE IF InlineStrip(line) = <<>> THEN st
        ELSE DataStep(st, InlineStrip(line))

\* a record one value wider than the frequency and the matrix
per_point_padded(P) == 2 + (P * P) * 2

per_point(P) == 1 + (P * P) * 2
total_points(rows, P) == Len(rows) \div per_point(P)
\* np.array(data_rows[: total_points * per_point]).reshape(total_points, per_point)
Reshape(rows, P) ==
    [n \in 0..(total_points(rows, P) - 1) |->
        [k \in 0..(per_point(P) - 1) |-> rows[n * per_point(P) + k + 1]]]
\* idx when the nested loops reach (i, j): two per earlier iteration
idx_at(i, j, P) == 2 * (i * P + j)

Err(kind) == [kind |-> kind, freq_hz |-> <<>>, s |-> <<>>, nports |-> 0, fmt |-> "",
              z0 |-> Fin(0)]
NoResult == Err("none")

AfterLoop(P, st) ==
    IF P <= 0 THEN Err("UnrecognizedPortCount")
    ELSE IF Len(st.data_rows) < per_point(P) THEN Err("InsufficientData")
    ELSE LET rows == Reshape(st.data_rows, P)
             N == total_points(st.data_rows, P)
             vals == [n \in 0..(N - 1) |-> [k \in 0..(per_point(P) - 2) |-> rows[n][k + 1]]]
         IN  [kind |-> "ok",
              freq_hz |-> [n \in 0..(N - 1) |-> FMul(rows[n][0], st.unit_scale)],
              s |-> [n \in 0..(N - 1) |-> [i \in 0..(P - 1) |-> [j \in 0..(P - 1) |->
                        _to_complex(vals[n][idx_at(i, j, P)], vals[n][idx_at(i, j, P) + 1],
                                    st.fmt)]]],
              nports |-> P, fmt |-> st.fmt, z0 |-> st.z0]

RECURSIVE Loop(_, _)
Loop(st, text) == IF text = <<>> THEN st ELSE Loop(LineStep(st, text[1]), Tail(text))

read_touchstone(name, text) == AfterLoop(_infer_nports(name), Loop(LoopStart, text))

(***************************************************************************)
(* The inputs explored.                                                    *)
(***************************************************************************)
NameChars == {".", "s", "S", "p", "0", "1", "2", "+", "x"}
AllNames == SeqsUpTo(NameChars, MaxNameLen)
OnePortName == <<"a", ".", "s", "1", "p">>
TwoPortName == <<"A", ".", "S", "2", "P">>
BadName == <<"a", ".", "t", "x", "t">>

RECURSIVE Join(_, _)
Join(toks, sep) ==
    IF toks = <<>> THEN <<>>
    ELSE IF Len(toks) = 1 THEN <<toks[1]>>
    ELSE <<toks[1], sep>> \o Join(Tail(toks), sep)

\* SpecData: data lines of up to MaxLineToks numbers, lines with a stray token, two headers
DataLines ==
    {Join(toks, " ") : toks \in SeqsUpTo({"1", "inf"}, MaxLineToks)}
    \cup { <<"x", " ", "1">>, <<"\t", "inf", "\t", "x">> }
FewHeaderLines == { <<"#", " ", "RI">>, <<" ", "#", "\t", "khz", " ", "ma", " ", "R", " ", "75">> }

\* Spec: data lines, wrapped and commented every way, and header lines
TextLines ==
    { <<"2", " ", "1">>, <<"\t", "2", "\t">>,
      <<"1", " ", "!", " ", "2">>, <<"2", "!", "1">>, <<"x", " ", "2">>,
      <<" ", "!", " ", "1">>, <<" ">>,
      <<"#", " ", "khz", " ", "MA", " ", "R", " ", "75">>, <<"#", " ", "GHZ">>,
      <<" ", "#", " ", "R", " ", "2">> }

\* SpecHeader: a header line of up to MaxHdrToks words, one data line
HdrWords == {"HZ", "KHZ", "MHZ", "GHZ", "MA", "DB", "R", "75", "0", "-5", "!"}
ManyHeaderLines == {<<"#", " ">> \o Join(toks, " ") : toks \in SeqsUpTo(HdrWords, MaxHdrToks)}
HeaderSpecDataLines == { <<"1000", "\t", "2", " ", "1">> }

(***************************************************************************)
(* History kept beside the program's state: which line was the last header *)
(* line, and the numeric tokens the file's data lines hold once blank      *)
(* lines, comment lines and inline comments are removed.                   *)
(***************************************************************************)
NoHeader == <<"no header line">>
IsHeaderLine(raw) == startswith(strip(raw), "#")
IsCommentLine(raw) == strip(raw) = <<>> \/ startswith(strip(raw), "!")
RECURSIVE NumericValues(_)
NumericValues(toks) ==
    IF toks = <<>> THEN <<>>
    ELSE (IF PyFloat(toks[1]).ok THEN <<PyFloat(toks[1]).val>> ELSE <<>>)
         \o NumericValues(Tail(toks))
LineTokens(raw) ==
    IF IsHeaderLine(raw) \/ IsCommentLine(raw) THEN <<>>
    ELSE NumericValues(split(BeforeBang(raw)))

(***************************************************************************)
(* read_touchstone, step by step.                                          *)
(***************************************************************************)
NoFile == [path |-> 0, data |-> NoResult]      \* None
NoPlot == [status |-> "none", ij |-> <<>>, attempts |-> {}]
GuiIdle ==
    /\ loaded_primary = NoFile /\ loaded_compare = NoFile
    /\ lbl_primary = <<"Primary: ", "(none)">> /\ lbl_compare = <<"Compare: ", "(none)">>
    /\ lbl_ports = [ports |-> -1, points |-> -1]           \* "Ports: -"
    /\ cmb_plot = "S21 (Insertion Loss) [dB]" /\ chk_smooth = FALSE
    /\ plot = NoPlot
    /\ last_op = [op |-> "init", file |-> 0]

DecodeStart(names) ==
    /\ path_name \in names
    /\ pc = "infer"
    /\ nports = 0
    /\ unit_scale = LoopStart.unit_scale /\ fmt = LoopStart.fmt /\ z0 = LoopStart.z0
    /\ data_rows = LoopStart.data_rows
    /\ result = NoResult
    /\ hdr_line = NoHeader
    /\ flat = <<>>
    /\ seen_lines = <<>>

LoopState == [unit_scale |-> unit_scale, fmt |-> fmt, z0 |-> z0, data_rows |-> data_rows]

InferNports ==
    /\ pc = "infer"
    /\ nports' = _infer_nports(path_name)
    /\ pc' = "loop"
    /\ UNCHANGED <<path_name, unit_scale, fmt, z0, data_rows, result, hdr_line, flat, seen_lines>>
    /\ UNCHANGED guivars

ReadLine(raw, keep) ==
    /\ pc = "loop"
    /\ LET st == LineStep(LoopState, raw)
       IN  /\ Len(st.data_rows) <= MaxTok
           /\ unit_scale' = st.unit_scale
           /\ fmt' = st.fmt
           /\ z0' = st.z0
           /\ data_rows' = st.data_rows
    /\ hdr_line' = IF IsHeaderLine(raw) THEN raw ELSE hdr_line
    /\ flat' = flat \o LineTokens(raw)
    /\ seen_lines' = IF keep THEN Append(seen_lines, raw) ELSE seen_lines
    /\ UNCHANGED <<path_name, pc, nports, result>>
    /\ UNCHANGED guivars

Finish ==
    /\ pc = "loop"
    /\ result' = AfterLoop(nports, LoopState)
    /\ pc' = "done"
    /\ UNCHANGED <<path_name, nports, unit_scale, fmt, z0, data_rows, hdr_line, flat, seen_lines>>
    /\ UNCHANGED guivars

\* SpecName: file names of every shape, a file of at most one line
NameLine == <<"1", " ", "1", "\t", "inf">>
InitName == DecodeStart(AllNames) /\ GuiIdle
ReadNameLine == data_rows = <<>> /\ ReadLine(NameLine, FALSE)
NextName == InferNports \/ ReadNameLine \/ Finish
SpecName == InitName /\ [][NextName]_vars

\* SpecData: up to MaxTok numbers under a one-port and a two-port name
InitData == DecodeStart({OnePortName, TwoPortName}) /\ GuiIdle
ReadDataLine == \E raw \in DataLines : ReadLine(raw, FALSE)
ReadHeaderLine == \E raw \in FewHeaderLines : ReadLine(raw, FALSE)
NextData == InferNports \/ ReadDataLine \/ ReadHeaderLine \/ Finish
SpecData == InitData /\ [][NextData]_vars

\* Spec: every file of up to MaxLines lines of TextLines, under a one-port name
Init == DecodeStart({OnePortName}) /\ GuiIdle
ReadTextLine == Len(seen_lines) < MaxLines /\ \E raw \in TextLines : ReadLine(raw, TRUE)
Next == InferNports \/ ReadTextLine \/ Finish
Spec == Init /\ [][Next]_vars

\* SpecHeader: header lines of every shape, at most one per file
InitHeader == DecodeStart({OnePortName}) /\ GuiIdle
ReadOnlyHeader == hdr_line = NoHeader /\ \E raw \in ManyHeaderLines : ReadLine(raw, FALSE)
ReadPlainLine == \E raw \in HeaderSpecDataLines : ReadLine(raw, FALSE)
NextHeader == InferNports \/ ReadOnlyHeader \/ ReadPlainLine \/ Finish
SpecHeader == InitHeader /\ [][NextHeader]_vars

(***************************************************************************)
(* Properties of the decoder.                                              *)
(***************************************************************************)
Decoded == pc = "done" /\ result.kind = "ok"
RecordWidth(P) == 1 + 2 * P * P
\* the tokens of entry (i, j) of point n in the flat stream (1-based positions)
FreqPos(n, P) == n * RecordWidth(P) + 1
FirstPos(n, i, j, P) == n * RecordWidth(P) + 1 + 1 + 2 * (i * P + j)
SecondPos(n, i, j, P) == n * RecordWidth(P) + 1 + 2 + 2 * (i * P + j)
HeaderParts(h) == IF h = NoHeader THEN <<>> ELSE split(upper(strip(h)))

\* the file-name pattern: anything, ".s", one or more decimal digits, a final "p"
PatternStarts(name) ==
    {i \in 1..(Len(name) - 3) :
        /\ SubSeq(LowerStr(name), i, i + 1) = <<".", "s">>
        /\ \A q \in (i + 2)..(Len(name) - 1) : name[q] \in Digits
        /\ LowerStr(name)[Len(name)] = "p"}
PatternDigits(name) == SubSeq(name, MinOf(PatternStarts(name)) + 2, Len(name) - 1)

\* C1: a name matching .s<digits>p (any case) gives the port count its digits spell; for
\* every other name the decode fails with the unrecognized-port-count error.
C1_PortCountFromName ==
    pc = "done" =>
        IF PatternStarts(path_name) # {}
        THEN nports = DigitsValue(PatternDigits(path_name))
        ELSE result.kind = "UnrecognizedPortCount"

\* C1, the part the code keeps: it holds of every name whose text between the last ".s"
\* and the final "p" carries no sign.
C1_UnsignedNames ==
    (pc = "done" /\ ~Contains(path_name, <<"+">>)) =>
        IF PatternStarts(path_name) # {}
        THEN nports = DigitsValue(PatternDigits(path_name))
        ELSE result.kind = "UnrecognizedPortCount"

\* C2: with T numeric tokens and W = 1 + 2*P*P, the decode fails with insufficient data
\* (and returns no dataset) exactly when T < W; otherwise it returns floor(T / W) points
\* built from the first tokens in order, as many frequencies as matrices, each P x P.
C2_PointAssembly ==
    (pc = "done" /\ nports >= 1) =>
        LET T == Len(flat)
            W == RecordWidth(nports)
            N == T \div W
        IN  /\ (result.kind = "InsufficientData") <=> (T < W)
            /\ T < W => result = Err("InsufficientData")
            /\ T >= W =>
                /\ result.kind = "ok"
                /\ result.nports = nports
                /\ DOMAIN result.freq_hz = 0..(N - 1)
                /\ DOMAIN result.s = 0..(N - 1)
                /\ \A n \in 0..(N - 1) :
                    /\ result.freq_hz[n] = FMul(flat[FreqPos(n, nports)], unit_scale)
                    /\ DOMAIN result.s[n] = 0..(nports - 1)
                    /\ \A i \in 0..(nports - 1) :
                        /\ DOMAIN result.s[n][i] = 0..(nports - 1)
                        /\ \A j \in 0..(nports - 1) :
                            result.s[n][i][j] =
                                _to_complex(flat[FirstPos(n, i, j, nports)],
                                            flat[SecondPos(n, i, j, nports)], fmt)

\* C2 witness: a one-port file of eight numbers decodes to two points, two numbers dropped
C2_TrailingDropped ==
    /\ Decoded /\ nports = 1 /\ Len(flat) = 8
    /\ DOMAIN result.freq_hz = 0..1
    /\ flat[7] # flat[4]

\* C10: entry (i, j) of point n comes from the two tokens at offsets 1 + 2*(i*P + j) and
\* 2 + 2*(i*P + j) of record n, and under RI its real part is the first of them and its
\* imaginary part the second.
C10_RowMajorRI ==
    (Decoded /\ fmt = "RI") =>
        \A n \in DOMAIN result.s : \A i \in 0..(nports - 1) : \A j \in 0..(nports - 1) :
            /\ result.s[n][i][j].re = flat[FirstPos(n, i, j, nports)]
            /\ result.s[n][i][j].im = flat[SecondPos(n, i, j, nports)]

\* C10, the part the code keeps: the same placement wherever the second token is finite
C10_RowMajorFiniteImag ==
    (Decoded /\ fmt = "RI") =>
        \A n \in DOMAIN result.s : \A i \in 0..(nports - 1) : \A j \in 0..(nports - 1) :
            flat[SecondPos(n, i, j, nports)].k = "fin" =>
                /\ result.s[n][i][j].re = flat[FirstPos(n, i, j, nports)]
                /\ result.s[n][i][j].im = flat[SecondPos(n, i, j, nports)]

(***************************************************************************)
(* Properties of the line classifier, stated on the lines read (Spec).     *)
(***************************************************************************)
HeaderLinesRead == SelectSeq(seen_lines, IsHeaderLine)
OtherLinesRead == SelectSeq(seen_lines, LAMBDA raw : ~IsHeaderLine(raw))
GoverningHeader ==
    IF HeaderLinesRead = <<>> THEN NoHeader ELSE HeaderLinesRead[Len(HeaderLinesRead)]
\* a number written back as text, and a stream of numbers written on one line
LiteralOf(x) == CHOOSE c \in FloatLiterals \ {"INF"} : LiteralValue(c) = x
OneLine(values) == Join([q \in 1..Len(values) |-> LiteralOf(values[q])], " ")
\* the same header lines, then the same numeric tokens on a single line without comments
Unwrapped == HeaderLinesRead \o <<OneLine(flat)>>

\* C4: files with the same header whose data lines hold the same numeric tokens once blank
\* lines and comments are removed decode identically: each file decodes as the file that
\* holds its header and all its numeric tokens on one line.
C4_CommentWrapTolerance ==
    pc = "done" => result = read_touchstone(path_name, Unwrapped)

\* C4 witness: one point split over three lines, with a full-line and an inline comment
C4_SplitPointDecoded ==
    /\ Decoded /\ Len(flat) = 3 /\ Len(seen_lines) = 4
    /\ Len(SelectSeq(seen_lines, LAMBDA raw : LineTokens(raw) # <<>>)) = 3
    /\ \E q \in 1..4 : startswith(strip(seen_lines[q]), "!")
    /\ \E q \in 1..4 : LineTokens(seen_lines[q]) # <<>> /\ BeforeBang(seen_lines[q]) # seen_lines[q]

\* the header interpreter run on one header line alone (on nothing when there is none)
HeaderAlone(h) == Loop(LoopStart, IF h = NoHeader THEN <<>> ELSE <<h>>)

\* C7: with several header lines, scale, encoding and impedance are those of the last
\* header line interpreted alone, they apply to every point of the file, and no header
\* line's tokens enter the numeric stream.
C7_LastHeaderWins ==
    pc # "infer" =>
        LET alone == HeaderAlone(GoverningHeader)
            stream == Loop(LoopStart, OtherLinesRead).data_rows
            P == nports
        IN  /\ unit_scale = alone.unit_scale /\ fmt = alone.fmt /\ z0 = alone.z0
            /\ data_rows = stream
            /\ Decoded =>
                /\ result.fmt = alone.fmt /\ result.z0 = alone.z0
                /\ \A n \in DOMAIN result.freq_hz :
                    /\ result.freq_hz[n] = FMul(stream[FreqPos(n, P)], alone.unit_scale)
                    /\ \A i \in 0..(P - 1) : \A j \in 0..(P - 1) :
                          result.s[n][i][j] =
                              _to_complex(stream[FirstPos(n, i, j, P)],
                                          stream[SecondPos(n, i, j, P)], alone.fmt)

\* C7 witness: a kHz / MA / 75 ohm header, a complete point, then a GHz header: the point
\* is decoded in GHz, RI, 50 ohm
C7_PointBeforeLastHeader ==
    /\ Decoded /\ Len(seen_lines) = 4 /\ Len(flat) = 3
    /\ seen_lines[1] = <<"#", " ", "khz", " ", "MA", " ", "R", " ", "75">>
    /\ seen_lines[4] = <<"#", " ", "GHZ">>
    /\ result.freq_hz[0] = FMul(flat[1], Norm(1, 9))
    /\ result.fmt = "RI" /\ result.z0 = Fin(50)

(***************************************************************************)
(* Properties of the header interpreter (SpecHeader).                      *)
(***************************************************************************)
\* the unit keywords tried in the order KHZ, MHZ, GHZ, HZ
ScaleKhzFirst(parts) ==
    IF InParts(parts, "KHZ") THEN Norm(1, 3)
    ELSE IF InParts(parts, "MHZ") THEN Norm(1, 6)
    ELSE IF InParts(parts, "GHZ") THEN Norm(1, 9)
    ELSE Fin(1)
\* the unit keywords tried in the order HZ, KHZ, MHZ, GHZ
ScaleHzFirst(parts) ==
    IF InParts(parts, "HZ") THEN Fin(1)
    ELSE IF InParts(parts, "KHZ") THEN Norm(1, 3)
    ELSE IF InParts(parts, "MHZ") THEN Norm(1, 6)
    ELSE IF InParts(parts, "GHZ") THEN Norm(1, 9)
    ELSE Fin(1)
ScaledBy(scale) ==
    /\ pc # "infer" => unit_scale = scale
    /\ Decoded => \A n \in DOMAIN result.freq_hz :
                      result.freq_hz[n] = FMul(flat[FreqPos(n, nports)], scale)

\* C3 as stated: the scale is 10^3 for KHZ, 10^6 for MHZ, 10^9 for GHZ, 1 for HZ or no
\* keyword, the first keyword found in the order KHZ, MHZ, GHZ, HZ decides, and every
\* frequency is its raw token times that scale.
C3_ScaleKhzFirst == ScaledBy(ScaleKhzFirst(HeaderParts(hdr_line)))

\* C3 as amended: the same, with the keywords tried in the order HZ, KHZ, MHZ, GHZ.
C3_ScaleHzFirst == ScaledBy(ScaleHzFirst(HeaderParts(hdr_line)))

\* C3 witness: a header naming both HZ and KHZ, and the point 1000 0 0 decoded under it
C3_TwoUnitsDecoded ==
    /\ Decoded
    /\ InParts(HeaderParts(hdr_line), "HZ") /\ InParts(HeaderParts(hdr_line), "KHZ")
    /\ flat[1] = Fin(1000) /\ result.freq_hz[0] = Fin(1000)

\* the impedance the header states: the token after R when it is a positive real, else 50
IsPositiveReal(x) == x.k = "fin" /\ x.v > 0
StatedImpedance(parts) ==
    IF InParts(parts, "R")
    THEN LET q == MinOf({r \in 1..Len(parts) : parts[r] = Word("R")})
         IN  IF q < Len(parts) /\ PyFloat(parts[q + 1]).ok
                  /\ IsPositiveReal(PyFloat(parts[q + 1]).val)
             THEN PyFloat(parts[q + 1]).val
             ELSE Fin(50)
    ELSE Fin(50)

\* C5: the reference impedance is a positive real: the token after R when that token parses
\* as a positive real, and 50 in every other case.
C5_ReferenceImpedance ==
    pc # "infer" =>
        /\ z0 = StatedImpedance(HeaderParts(hdr_line))
        /\ IsPositiveReal(z0)
        /\ Decoded => result.z0 = z0

\* C5, the part the code keeps: the token after the first R when it parses as a number
\* of any sign, 50 otherwise
C5_AnyNumberAfterR ==
    pc # "infer" =>
        LET parts == HeaderParts(hdr_line)
            q == MinOf({r \in 1..Len(parts) : parts[r] = Word("R")})
        IN  z0 = IF InParts(parts, "R") /\ q < Len(parts) /\ PyFloat(parts[q + 1]).ok
                 THEN PyFloat(parts[q + 1]).val ELSE Fin(50)

\* C6: on a header line everything from the first "!" on is removed before the header
\* tokens are taken, so words after "!" never influence scale, encoding or impedance.
C6_HeaderCommentStripped ==
    pc # "infer" =>
        LET parts == IF hdr_line = NoHeader THEN <<>>
                     ELSE split(upper(strip(BeforeBang(strip(hdr_line)))))
        IN  /\ unit_scale = _unit_scale(parts)
            /\ fmt = _parse_format(parts)
            /\ z0 = _parse_z0(parts)

\* C6, the part the code keeps: it holds of header lines without "!"
C6_HeaderWithoutComment ==
    (pc # "infer" /\ ~Contains(hdr_line, <<"!">>)) =>
        /\ unit_scale = _unit_scale(HeaderParts(hdr_line))
        /\ fmt = _parse_format(HeaderParts(hdr_line))
        /\ z0 = _parse_z0(HeaderParts(hdr_line))

(***************************************************************************)
(* MainWindow: the files the picker can return, the handlers, the plot.    *)
(***************************************************************************)
ThreePortName == <<"b", ".", "s", "3", "p">>
Ones(n) == Join([q \in 1..n |-> "1"], " ")
\* file 1: one port, one point        file 2: two ports, one point, GHz
\* file 3: no port count in the name  file 4: two ports, too few numbers
\* file 5: cannot be read             file 6: one port, two points
\* file 7: three ports, one point
GuiFileIds == 1..7
GuiFile(id) ==
    CASE id = 1 -> [name |-> OnePortName, readable |-> TRUE, lines |-> <<Ones(3)>>]
      [] id = 2 -> [name |-> TwoPortName, readable |-> TRUE,
                    lines |-> << <<"#", " ", "GHZ", " ", "S", " ", "RI", " ", "R", " ", "50">>,
                                 Ones(5), Ones(4) >>]
      [] id = 3 -> [name |-> BadName, readable |-> TRUE, lines |-> <<Ones(3)>>]
      [] id = 4 -> [name |-> TwoPortName, readable |-> TRUE, lines |-> <<Ones(3)>>]
      [] id = 5 -> [name |-> OnePortName, readable |-> FALSE, lines |-> <<>>]
      [] id = 6 -> [name |-> OnePortName, readable |-> TRUE,
                    lines |-> << <<"2", " ", "1", " ", "0">>, <<"1", " ", "0", " ", "2">> >>]
      [] OTHER  -> [name |-> ThreePortName, readable |-> TRUE, lines |-> <<Ones(19)>>]

\* read_touchstone(p): Path(path).read_text raises before anything else
ReadFile(id) ==
    IF GuiFile(id).readable THEN read_touchstone(GuiFile(id).name, GuiFile(id).lines)
    ELSE Err("OSError")

Metrics == {"S21 (Insertion Loss) [dB]", "S11 (Return Loss) [dB]", "S12 [dB]", "S22 [dB]"}
\* "Sxy" in metric, for the four texts of the combo box
Mentions(metric, tag) ==
    \/ metric = "S21 (Insertion Loss) [dB]" /\ tag = "S21"
    \/ metric = "S11 (Return Loss) [dB]" /\ tag = "S11"
    \/ metric = "S12 [dB]" /\ tag = "S12"
    \/ metric = "S22 [dB]" /\ tag = "S22"

None == <<>>
_metric_to_ij(metric, P) ==
    IF Mentions(metric, "S21") THEN (IF P >= 2 THEN <<1, 0>> ELSE None)
    ELSE IF Mentions(metric, "S11") THEN (IF P >= 1 THEN <<0, 0>> ELSE None)
    ELSE IF Mentions(metric, "S12") THEN (IF P >= 2 THEN <<0, 1>> ELSE None)
    ELSE IF Mentions(metric, "S22") THEN (IF P >= 2 THEN <<1, 1>> ELSE None)
    ELSE None

\* data.s[:, i, j]: numpy raises IndexError for an index outside the array
Attempt(slot, data, ij) == [slot |-> slot, i |-> ij[1], j |-> ij[2], nports |-> data.nports]
_extract_db(data, i, j) == IF i < data.nports /\ j < data.nports THEN "ok" ELSE "IndexError"

refresh_plot(primary, compare, metric) ==
    IF primary = NoFile THEN [status |-> "title only", ij |-> None, attempts |-> {}]
    ELSE LET ij == _metric_to_ij(metric, primary.data.nports)
         IN  IF ij = None THEN [status |-> "unsupported", ij |-> None, attempts |-> {}]
             ELSE IF _extract_db(primary.data, ij[1], ij[2]) # "ok"
                  THEN [status |-> "IndexError", ij |-> ij,
                        attempts |-> {Attempt("primary", primary.data, ij)}]
             ELSE IF compare = NoFile
                  THEN [status |-> "plotted", ij |-> ij,
                        attempts |-> {Attempt("primary", primary.data, ij)}]
             ELSE [status |-> IF _extract_db(compare.data, ij[1], ij[2]) = "ok"
                              THEN "plotted" ELSE "IndexError",
                   ij |-> ij,
                   attempts |-> {Attempt("primary", primary.data, ij),
                                 Attempt("compare", compare.data, ij)}]

DecodeIdle ==
    /\ path_name = <<>> /\ pc = "idle" /\ nports = 0
    /\ unit_scale = LoopStart.unit_scale /\ fmt = LoopStart.fmt /\ z0 = LoopStart.z0
    /\ data_rows = <<>> /\ result = NoResult /\ hdr_line = NoHeader /\ flat = <<>>
    /\ seen_lines = <<>>

Replot(primary, compare, metric) == plot' = refresh_plot(primary, compare, metric)

\* a load that clears the slot before it knows the decode succeeded
load_primary_clearing(p) ==
    /\ last_op' = [op |-> "load_primary", file |-> p]
    /\ IF ReadFile(p).kind # "ok"
       THEN /\ loaded_primary' = NoFile
            /\ lbl_primary' = <<"Primary: ", "(none)">>
            /\ UNCHANGED <<loaded_compare, lbl_compare, lbl_ports, cmb_plot, chk_smooth, plot>>
       ELSE /\ loaded_primary' = [path |-> p, data |-> ReadFile(p)]
            /\ lbl_primary' = <<"Primary: ", GuiFile(p).name>>
            /\ lbl_ports' = [ports |-> ReadFile(p).nports,
                             points |-> Cardinality(DOMAIN ReadFile(p).freq_hz)]
            /\ Replot(loaded_primary', loaded_compare, cmb_plot)
            /\ UNCHANGED <<loaded_compare, lbl_compare, cmb_plot, chk_smooth>>
    /\ UNCHANGED decvars

_load_primary(p) ==
    /\ last_op' = [op |-> "load_primary", file |-> p]
    /\ IF ReadFile(p).kind # "ok"
       THEN UNCHANGED <<loaded_primary, loaded_compare, lbl_primary, lbl_compare, lbl_ports,
                        cmb_plot, chk_smooth, plot>>
       ELSE /\ loaded_primary' = [path |-> p, data |-> ReadFile(p)]
            /\ lbl_primary' = <<"Primary: ", GuiFile(p).name>>
            /\ lbl_ports' = [ports |-> ReadFile(p).nports,
                             points |-> Cardinality(DOMAIN ReadFile(p).freq_hz)]
            /\ Replot(loaded_primary', loaded_compare, cmb_plot)
            /\ UNCHANGED <<loaded_compare, lbl_compare, cmb_plot, chk_smooth>>
    /\ UNCHANGED decvars

_load_compare(p) ==
    /\ last_op' = [op |-> "load_compare", file |-> p]
    /\ IF ReadFile(p).kind # "ok"
       THEN UNCHANGED <<loaded_primary, loaded_compare, lbl_primary, lbl_compare, lbl_ports,
                        cmb_plot, chk_smooth, plot>>
       ELSE /\ loaded_compare' = [path |-> p, data |-> ReadFile(p)]
            /\ lbl_compare' = <<"Compare: ", GuiFile(p).name>>
            /\ Replot(loaded_primary, loaded_compare', cmb_plot)
            /\ UNCHANGED <<loaded_primary, lbl_primary, lbl_ports, cmb_plot, chk_smooth>>
    /\ UNCHANGED decvars

on_open_primary == \E p \in GuiFileIds : _load_primary(p)
on_open_compare == \E p \in GuiFileIds : _load_compare(p)
\* the file dialog closed without a choice: both handlers return at once
on_open_cancelled ==
    /\ last_op' = [op |-> "open_cancelled", file |-> 0]
    /\ UNCHANGED <<loaded_primary, loaded_compare, lbl_primary, lbl_compare, lbl_ports,
                   cmb_plot, chk_smooth, plot>>
    /\ UNCHANGED decvars

on_clear_compare ==
    /\ last_op' = [op |-> "clear_compare", file |-> 0]
    /\ loaded_compare' = NoFile
    /\ lbl_compare' = <<"Compare: ", "(none)">>
    /\ Replot(loaded_primary, NoFile, cmb_plot)
    /\ UNCHANGED <<loaded_primary, lbl_primary, lbl_ports, cmb_plot, chk_smooth>>
    /\ UNCHANGED decvars

\* cmb_plot.currentIndexChanged and chk_smooth.stateChanged are connected to refresh_plot
on_metric_changed ==
    /\ \E m \in Metrics \ {cmb_plot} : cmb_plot' = m
    /\ last_op' = [op |-> "metric_changed", file |-> 0]
    /\ Replot(loaded_primary, loaded_compare, cmb_plot')
    /\ UNCHANGED <<loaded_primary, loaded_compare, lbl_primary, lbl_compare, lbl_ports,
                   chk_smooth>>
    /\ UNCHANGED decvars

on_smooth_changed ==
    /\ chk_smooth' = ~chk_smooth
    /\ last_op' = [op |-> "smooth_changed", file |-> 0]
    /\ Replot(loaded_primary, loaded_compare, cmb_plot)
    /\ UNCHANGED <<loaded_primary, loaded_compare, lbl_primary, lbl_compare, lbl_ports,
                   cmb_plot>>
    /\ UNCHANGED decvars

InitGui == DecodeIdle /\ GuiIdle
NextGui ==
    \/ on_open_primary \/ on_open_compare \/ on_open_cancelled
    \/ on_clear_compare \/ on_metric_changed \/ on_smooth_changed
SpecGui == InitGui /\ [][NextGui]_vars

(***************************************************************************)
(* Properties of MainWindow (SpecGui).                                     *)
(***************************************************************************)
LoadFailed(op) == op.op \in {"load_primary", "load_compare"} /\ ReadFile(op.file).kind # "ok"

\* C8: a load whose read_touchstone call fails changes neither loaded file nor its label,
\* and only a successful decode puts a file into the corresponding slot.
C8_FailedLoadKeepsState ==
    [][ /\ LoadFailed(last_op') =>
            /\ loaded_primary' = loaded_primary /\ lbl_primary' = lbl_primary
            /\ loaded_compare' = loaded_compare /\ lbl_compare' = lbl_compare
        /\ loaded_primary' # loaded_primary =>
            /\ last_op'.op = "load_primary"
            /\ ReadFile(last_op'.file).kind = "ok"
            /\ loaded_primary' = [path |-> last_op'.file, data |-> ReadFile(last_op'.file)]
        /\ (loaded_compare' # loaded_compare /\ loaded_compare' # NoFile) =>
            /\ last_op'.op = "load_compare"
            /\ ReadFile(last_op'.file).kind = "ok"
            /\ loaded_compare' = [path |-> last_op'.file, data |-> ReadFile(last_op'.file)]
      ]_vars

\* C8 witness: a compare load failed for want of data while both files were loaded
C8_FailedLoadWithBothLoaded ==
    /\ last_op.op = "load_compare" /\ ReadFile(last_op.file).kind = "InsufficientData"
    /\ loaded_primary # NoFile /\ loaded_compare # NoFile

MetricPair(metric) ==
    CASE Mentions(metric, "S11") -> <<0, 0>> [] Mentions(metric, "S12") -> <<0, 1>>
      [] Mentions(metric, "S21") -> <<1, 0>> [] OTHER -> <<1, 1>>
OutOfRange(file, metric) ==
    file # NoFile /\ (MetricPair(metric)[1] >= file.data.nports
                        \/ MetricPair(metric)[2] >= file.data.nports)

\* C9: refresh_plot maps S11, S12, S21, S22 to (0,0), (0,1), (1,0), (1,1), indexes a loaded
\* dataset only inside its own port count, and reports a pair outside a dataset's range as
\* unsupported instead of raising an index fault, also when the compare file has fewer
\* ports than the primary.
C9_NoIndexFault ==
    /\ plot.status # "IndexError"
    /\ \A a \in plot.attempts : a.i < a.nports /\ a.j < a.nports
    /\ plot.status = "plotted" => plot.ij = MetricPair(cmb_plot)
    /\ (OutOfRange(loaded_primary, cmb_plot) \/ OutOfRange(loaded_compare, cmb_plot))
            => plot.status \in {"unsupported", "none", "title only"}

\* C9, the part the code keeps: the same whenever no compare file with fewer ports than
\* the metric needs is loaded over a primary
C9_PrimaryInRange ==
    ~(loaded_primary # NoFile /\ ~OutOfRange(loaded_primary, cmb_plot)
        /\ OutOfRange(loaded_compare, cmb_plot)) =>
        /\ plot.status # "IndexError"
        /\ \A a \in plot.attempts : a.i < a.nports /\ a.j < a.nports
        /\ plot.status = "plotted" => plot.ij = MetricPair(cmb_plot)
        /\ OutOfRange(loaded_primary, cmb_plot) => plot.status = "unsupported"

====
